---- MODULE Spec2Model ----
(***************************************************************************)
(* Model of shape_avg.py: the per-device worker check_shape_bandwidth and  *)
(* the fan-out / fan-in loop of main.                                       *)
(*                                                                          *)
(* Python strings are sequences of one-character strings, so that split,   *)
(* join, the substring test and int() are computed and not assumed.        *)
(***************************************************************************)
EXTENDS Integers, Sequences, FiniteSets, TLC

\* ------------------------------------------------------------------ bounds

\* Longest device name drawn after "hostname " in the wide input scope.
MaxNameLen == 3
\* Most bandwidth statements in one bandwidth output (wide scope).
MaxBwStmts == 2
\* Most shape average statements in one shape output (wide scope).
MaxShStmts == 2
\* Longest address list of a run (fleet scope).
NumDevices == 2

\* ------------------------------------------------------- program constants

\* ProcessPoolExecutor(max_workers=12)
max_workers == 12
\* bandwidth_to_mb = bandwidth * 1000
KbPerMb == 1000

\* The shortest address list that does not fit into the pool at once.
PoolDevices == max_workers + 1

\* ------------------------------------------------------------ str helpers

Whitespace == {" ", "\n", "\t"}
Digits == {"0", "1", "2", "3", "4", "5", "6", "7", "8", "9"}

\* The string literals of the code that the decision reads.
str_be == <<"b", "e">>
str_bandwidth == <<"b", "a", "n", "d", "w", "i", "d", "t", "h">>
str_shape == <<"s", "h", "a", "p", "e">>
str_average == <<"a", "v", "e", "r", "a", "g", "e">>
str_hostname == <<"h", "o", "s", "t", "n", "a", "m", "e">>

\* sub in s
Contains(sub, s) ==
    \E i \in 0..(Len(s) - Len(sub)) : SubSeq(s, i + 1, i + Len(sub)) = sub

\* s.split(' '): cut at every single space, empty pieces kept.
RECURSIVE SplitSpaceFrom(_, _, _)
SplitSpaceFrom(s, i, cur) ==
    IF i > Len(s) THEN <<cur>>
    ELSE IF s[i] = " " THEN <<cur>> \o SplitSpaceFrom(s, i + 1, <<>>)
    ELSE SplitSpaceFrom(s, i + 1, Append(cur, s[i]))

split_space(s) == SplitSpaceFrom(s, 1, <<>>)

\* s.split(): cut at runs of whitespace, no empty piece.
RECURSIVE SplitWsFrom(_, _, _)
SplitWsFrom(s, i, cur) ==
    IF i > Len(s) THEN (IF cur = <<>> THEN <<>> ELSE <<cur>>)
    ELSE IF s[i] \in Whitespace
         THEN (IF cur = <<>> THEN <<>> ELSE <<cur>>) \o SplitWsFrom(s, i + 1, <<>>)
         ELSE SplitWsFrom(s, i + 1, Append(cur, s[i]))

split_ws(s) == SplitWsFrom(s, 1, <<>>)

\* sep.join(lst)
RECURSIVE JoinWith(_, _)
JoinWith(sep, lst) ==
    IF lst = <<>> THEN <<>>
    ELSE IF Len(lst) = 1 THEN lst[1]
    ELSE lst[1] \o sep \o JoinWith(sep, Tail(lst))

join_space(lst) == JoinWith(<<" ">>, lst)

\* x in lst
InList(x, lst) == \E i \in 1..Len(lst) : lst[i] = x

\* lst.remove(x): the list without the first occurrence of x (x is in lst).
RECURSIVE list_remove(_, _)
list_remove(lst, x) ==
    IF lst = <<>> THEN <<>>
    ELSE IF lst[1] = x THEN Tail(lst)
    ELSE <<lst[1]>> \o list_remove(Tail(lst), x)

\* while (x in lst): lst.remove(x)
RECURSIVE remove_all(_, _)
remove_all(lst, x) ==
    IF InList(x, lst) THEN remove_all(list_remove(lst, x), x) ELSE lst

\* set(lst)
SetOfList(lst) == {lst[i] : i \in 1..Len(lst)}

\* [*set(lst)]: the elements of the set, each once, in the order the hash
\* table happens to hold them: any order.
ListsOfSet(S) ==
    {f \in [1..Cardinality(S) -> S] : \A i, j \in 1..Cardinality(S) : f[i] = f[j] => i = j}

\* int(txt) accepts an optional sign and then decimal digits.
int_body(txt) ==
    IF txt # <<>> /\ txt[1] \in {"+", "-"} THEN Tail(txt) ELSE txt

int_ok(txt) ==
    /\ int_body(txt) # <<>>
    /\ \A i \in 1..Len(int_body(txt)) : int_body(txt)[i] \in Digits

DigitVal(c) ==
    CASE c = "0" -> 0 [] c = "1" -> 1 [] c = "2" -> 2 [] c = "3" -> 3
      [] c = "4" -> 4 [] c = "5" -> 5 [] c = "6" -> 6 [] c = "7" -> 7
      [] c = "8" -> 8 [] c = "9" -> 9

RECURSIVE DigitsVal(_)
DigitsVal(ds) ==
    IF ds = <<>> THEN 0
    ELSE 10 * DigitsVal(SubSeq(ds, 1, Len(ds) - 1)) + DigitVal(ds[Len(ds)])

int_of(txt) ==
    IF txt[1] = "-" THEN 0 - DigitsVal(int_body(txt)) ELSE DigitsVal(int_body(txt))

\* ------------------------------------------------------- Python values

\* A value held by a dict key or a local variable: a missing key / unbound
\* local, None, a str or an int.  Both payload fields are always present.
PyMissing == [kind |-> "missing", str |-> <<>>, num |-> 0]
PyNone == [kind |-> "None", str |-> <<>>, num |-> 0]
PyStr(s) == [kind |-> "str", str |-> s, num |-> 0]
PyInt(n) == [kind |-> "int", str |-> <<>>, num |-> n]
PyTime == [kind |-> "datetime", str |-> <<>>, num |-> 0]

str_see_comment == <<"s", "e", "e", " ", "c", "o", "m", "m", "e", "n", "t">>
str_see_comments == <<"s", "e", "e", " ", "c", "o", "m", "m", "e", "n", "t", "s">>

\* An f-string is the concatenation of its parts: literal text, the device
\* address, a str value, the repr of a list of str, an int, an exception.
Lit(s) == [k |-> "lit", lit |-> s, txt |-> <<>>, lst |-> <<>>, num |-> 0]
Dev(d) == [k |-> "device", lit |-> "", txt |-> <<>>, lst |-> <<>>, num |-> d]
Txt(t) == [k |-> "str", lit |-> "", txt |-> t, lst |-> <<>>, num |-> 0]
Lst(l) == [k |-> "list", lit |-> "", txt |-> <<>>, lst |-> l, num |-> 0]
Num(n) == [k |-> "int", lit |-> "", txt |-> <<>>, lst |-> <<>>, num |-> n]
Exc(e) == [k |-> "exception", lit |-> e, txt |-> <<>>, lst |-> <<>>, num |-> 0]

\* record = {}; record['ip'] = device
record_new(device) ==
    [ip |-> device, hostname |-> PyMissing, bandwidth |-> PyMissing,
     shape_avg |-> PyMissing, results |-> "", comments |-> <<>>,
     timestamp |-> PyMissing]

\* --------------------------------------------------- the decision branches

\* Mutant: the first piece of the hostname output is taken for the name.
hostname_of_first(hostname_output) ==
    LET hostname_lst == split_space(hostname_output)
    IN  hostname_lst[1]

\* hostname_lst = hostname_output.split(' '); hostname = hostname_lst[-1]
hostname_of(hostname_output) ==
    LET hostname_lst == split_space(hostname_output)
    IN  hostname_lst[Len(hostname_lst)]

\* Mutant: the name must be "be" itself.
is_best_effort_exact(hostname) == hostname = str_be

\* if 'be' in hostname
is_best_effort(hostname) == Contains(str_be, hostname)

\* Mutant: the bypass leaves both fields None.
bypass_record_null(record, device, hostname) ==
    [record EXCEPT !.bandwidth = PyNone,
                   !.shape_avg = PyNone,
                   !.results = "Skipped",
                   !.comments = <<Dev(device), Lit(" - "), Txt(hostname),
                                  Lit(" bypassed because of best effort services.")>>]

bypass_record(record, device, hostname) ==
    [record EXCEPT !.bandwidth = PyStr(str_see_comment),
                   !.shape_avg = PyStr(str_see_comment),
                   !.results = "Skipped",
                   !.comments = <<Dev(device), Lit(" - "), Txt(hostname),
                                  Lit(" bypassed because of best effort services.")>>]

both_missing_record(record, device, hostname) ==
    [record EXCEPT !.bandwidth = PyNone,
                   !.shape_avg = PyNone,
                   !.results = "Fail",
                   !.comments = <<Dev(device), Lit(" - "), Txt(hostname),
                                  Lit(" missing bandwidth and shape average statements!")>>]

shape_missing_record(record, device, hostname, bandwidth_output) ==
    [record EXCEPT !.bandwidth = PyStr(str_see_comments),
                   !.shape_avg = PyNone,
                   !.results = "Fail",
                   !.comments = <<Dev(device), Lit(" - "), Txt(hostname),
                                  Lit(" missing shape average statement! Bandwidth output: "),
                                  Txt(bandwidth_output)>>]

bandwidth_missing_record(record, device, hostname, shape_output) ==
    [record EXCEPT !.bandwidth = PyNone,
                   !.shape_avg = PyStr(str_see_comment),
                   !.results = "Fail",
                   !.comments = <<Dev(device), Lit(" - "), Txt(hostname),
                                  Lit(" missing shape average statement! Shape average output: "),
                                  Txt(shape_output)>>]

\* bandwidth_lst = bandwidth_output.split(' ')
\* bandwidth_full_lst = ' '.join(bandwidth_lst).split()
bandwidth_full_lst(bandwidth_output) ==
    split_ws(join_space(split_space(bandwidth_output)))

\* Mutant: the token list is used as it is, without set().
bandwidth_lsts_no_set(bandwidth_output) == {bandwidth_full_lst(bandwidth_output)}

\* bandwidth_txt_lst = [*set(bandwidth_full_lst)]: the orders the list can have.
bandwidth_set_lsts(bandwidth_output) ==
    ListsOfSet(SetOfList(bandwidth_full_lst(bandwidth_output)))

\* Mutant: > 2 for >= 2.
more_than_2_bandwidth(bandwidth_txt_lst) == Len(bandwidth_txt_lst) > 2

\* if len(bandwidth_txt_lst) >= 2
more_than_1_bandwidth(bandwidth_txt_lst) == Len(bandwidth_txt_lst) >= 2

more_than_1_bandwidth_record(record, device, hostname, bandwidth_txt_lst, shape_output) ==
    [record EXCEPT !.bandwidth = PyStr(str_see_comment),
                   !.shape_avg = PyStr(str_see_comment),
                   !.results = "Fail",
                   !.comments = <<Dev(device), Lit(" - "), Txt(hostname),
                                  Lit(" has more than 1 bandwidth: "), Lst(bandwidth_txt_lst),
                                  Lit(". Shape average output: "), Txt(shape_output)>>]

\* shape_txt_lst = ' '.join(shape_output.split(' ')).split(), then every
\* 'shape' and every 'average' removed.
shape_txt_lst_of(shape_output) ==
    remove_all(remove_all(split_ws(join_space(split_space(shape_output))), str_shape),
               str_average)

\* Mutant: the shape tokens are counted after deduplication.
more_than_1_distinct_shape(shape_txt_lst) ==
    Cardinality(SetOfList(shape_txt_lst)) >= 2

\* if len(shape_txt_lst) >= 2
more_than_1_shape(shape_txt_lst) == Len(shape_txt_lst) >= 2

more_than_1_shape_record(record, device, hostname, bandwidth_txt_lst, shape_txt_lst) ==
    [record EXCEPT !.bandwidth = PyStr(bandwidth_txt_lst[1]),
                   !.shape_avg = PyStr(str_see_comment),
                   !.results = "Fail",
                   !.comments = <<Dev(device), Lit(" - "), Txt(hostname),
                                  Lit(" has more than 1 shape average statement: "),
                                  Lst(shape_txt_lst)>>]

\* bandwidth_to_mb = bandwidth * 1000
bandwidth_to_mb(bandwidth) == bandwidth * KbPerMb

\* Mutant: the mismatch branch records Fail.
compare_record_fail(record, device, hostname, bandwidth, shape) ==
    LET to_mb == bandwidth * 1000
        filled == [record EXCEPT !.bandwidth = PyInt(to_mb),
                                 !.shape_avg = PyInt(shape)]
    IN  IF to_mb - shape = 0
        THEN [filled EXCEPT !.results = "Pass",
                            !.comments = <<Dev(device), Lit(" - "), Txt(hostname),
                                           Lit("(Exact Match) Bandwidth = "), Num(to_mb),
                                           Lit(" Shape = "), Num(shape)>>]
        ELSE IF to_mb - shape = 1
        THEN [filled EXCEPT !.results = "Pass",
                            !.comments = <<Dev(device), Lit(" - "), Txt(hostname),
                                           Lit(" (Delta = 1) Bandwidth = "), Num(to_mb),
                                           Lit(" Shape = "), Num(shape)>>]
        ELSE [filled EXCEPT !.results = "Fail",
                            !.comments = <<Dev(device), Lit(" - "), Txt(hostname),
                                           Lit(" (Delta > 1) Bandwidth "), Num(to_mb),
                                           Lit(" and shape"), Num(shape),
                                           Lit(" mismatch!")>>]

\* The three branches on bandwidth_to_mb - shape.
compare_record(record, device, hostname, bandwidth, shape) ==
    LET to_mb == bandwidth_to_mb(bandwidth)
        filled == [record EXCEPT !.bandwidth = PyInt(to_mb),
                                 !.shape_avg = PyInt(shape)]
    IN  IF to_mb - shape = 0
        THEN [filled EXCEPT !.results = "Pass",
                            !.comments = <<Dev(device), Lit(" - "), Txt(hostname),
                                           Lit("(Exact Match) Bandwidth = "), Num(to_mb),
                                           Lit(" Shape = "), Num(shape)>>]
        ELSE IF to_mb - shape = 1
        THEN [filled EXCEPT !.results = "Pass",
                            !.comments = <<Dev(device), Lit(" - "), Txt(hostname),
                                           Lit(" (Delta = 1) Bandwidth = "), Num(to_mb),
                                           Lit(" Shape = "), Num(shape)>>]
        ELSE [filled EXCEPT !.results = "Pass",
                            !.comments = <<Dev(device), Lit(" - "), Txt(hostname),
                                           Lit(" (Delta > 1) Bandwidth "), Num(to_mb),
                                           Lit(" and shape"), Num(shape),
                                           Lit(" mismatch!")>>]

\* What a block of code ends with: it fell through with the record, or it
\* raised e.
Fell(record) == [raised |-> FALSE, e |-> "", record |-> record]
Raised(e, record) == [raised |-> TRUE, e |-> e, record |-> record]

\* shape_txt = ' '.join(shape_txt_lst).split()[-1]; shape = int(shape_txt)
\* bandwidth_txt = ' '.join(bandwidth_lst).split()[-1]; bandwidth = int(bandwidth_txt)
parse_and_compare(record, device, hostname, bandwidth_output, shape_txt_lst) ==
    LET shape_toks == split_ws(join_space(shape_txt_lst))
        bandwidth_toks == split_ws(join_space(split_space(bandwidth_output)))
    IN  IF shape_toks = <<>> THEN Raised("IndexError", record)
        ELSE IF ~int_ok(shape_toks[Len(shape_toks)]) THEN Raised("ValueError", record)
        ELSE IF bandwidth_toks = <<>> THEN Raised("IndexError", record)
        ELSE IF ~int_ok(bandwidth_toks[Len(bandwidth_toks)]) THEN Raised("ValueError", record)
        ELSE Fell(compare_record(record, device, hostname,
                                 int_of(bandwidth_toks[Len(bandwidth_toks)]),
                                 int_of(shape_toks[Len(shape_toks)])))

\* Both outputs are present: the bandwidth check, the shape check, the
\* comparison.  set_lst is [*set(bandwidth_full_lst)] in the order the set gave.
both_present(record, device, hostname, bandwidth_output, shape_output, set_lst) ==
    IF ~InList(str_bandwidth, set_lst) THEN Raised("ValueError", record)
    ELSE LET bandwidth_txt_lst == list_remove(set_lst, str_bandwidth)
             shape_txt_lst == shape_txt_lst_of(shape_output)
         IN  IF more_than_1_bandwidth(bandwidth_txt_lst)
             THEN Fell(more_than_1_bandwidth_record(record, device, hostname,
                                                    bandwidth_txt_lst, shape_output))
             ELSE IF more_than_1_shape(shape_txt_lst)
             THEN (IF bandwidth_txt_lst = <<>> THEN Raised("IndexError", record)
                   ELSE Fell(more_than_1_shape_record(record, device, hostname,
                                                      bandwidth_txt_lst, shape_txt_lst)))
             ELSE parse_and_compare(record, device, hostname, bandwidth_output,
                                    shape_txt_lst)

\* The if / elif / elif / else on the two outputs.
classify(record, device, hostname, bandwidth_output, shape_output, set_lst) ==
    IF bandwidth_output = <<>> /\ shape_output = <<>>
    THEN Fell(both_missing_record(record, device, hostname))
    ELSE IF bandwidth_output # <<>> /\ shape_output = <<>>
    THEN Fell(shape_missing_record(record, device, hostname, bandwidth_output))
    ELSE IF bandwidth_output = <<>> /\ shape_output # <<>>
    THEN Fell(bandwidth_missing_record(record, device, hostname, shape_output))
    ELSE both_present(record, device, hostname, bandwidth_output, shape_output, set_lst)

\* Mutant: the handler reports the fault without the hostname.
except_record_anonymous(record, device, hostname, e) ==
    [record EXCEPT !.bandwidth = PyStr(str_see_comment),
                   !.shape_avg = PyStr(str_see_comment),
                   !.results = "Fail",
                   !.comments = <<Lit("Exception on "), Dev(device), Lit(": "), Exc(e)>>]

\* except Exception as e (hostname is bound)
except_record(record, device, hostname, e) ==
    [record EXCEPT !.bandwidth = PyStr(str_see_comment),
                   !.shape_avg = PyStr(str_see_comment),
                   !.results = "Fail",
                   !.comments = <<Lit("Exception on "), Dev(device), Lit(" - "),
                                  Txt(hostname), Lit(": "), Exc(e)>>]

\* Mutant: the outer handler leaves bandwidth and shape_avg as they are.
netmiko_except_record_keep(record, device, e) ==
    [record EXCEPT !.results = "Fail",
                   !.comments = <<Lit("Exception on "), Dev(device), Lit(": "), Exc(e)>>]

\* except netmiko_exceptions as e
netmiko_except_record(record, device, e) ==
    [record EXCEPT !.bandwidth = PyStr(str_see_comment),
                   !.shape_avg = PyStr(str_see_comment),
                   !.results = "Fail",
                   !.comments = <<Lit("Exception on "), Dev(device), Lit(": "), Exc(e)>>]

\* ------------------------------------------------------------------ state

VARIABLES
    scope,      \* which inputs are drawn: "fleet", "engine", "twice" or "pool"
    devices,    \* data['ip'].tolist(): the address list, in input order
    man,        \* args.man
    main_pc,    \* where main is: "start", "map", "done", "raised"
    nxt,        \* index of the next result main takes from executor.map
    results,    \* the list main builds under --man
    csvfile,    \* the output file: header rows written, data rows in order
    pc,         \* per device: where its call of check_shape_bandwidth is
    record,     \* per device: the dict record
    local,      \* per device: the locals hostname and the three command outputs
    calls,      \* per device: the calls made on the session, with their outcome
    escaped     \* per device: the exception that left check_shape_bandwidth, or ""

vars == <<scope, devices, man, main_pc, nxt, results, csvfile, pc, record, local,
          calls, escaped>>

\* The positions of the address list: one call of check_shape_bandwidth each.
Slots == 1..Len(devices)

\* ----------------------------------------------------------------- inputs

RECURSIVE SeqsUpTo(_, _)
SeqsUpTo(S, n) ==
    IF n = 0 THEN {<<>>}
    ELSE LET P == SeqsUpTo(S, n - 1) IN P \cup {Append(q, x) : q \in P, x \in S}

\* Characters of the device names drawn: enough to spell "be" at the start, in
\* the middle or at the end of a name, or to miss it.
NameChars == {"b", "e"}
\* Names that differ from "be" by case only.
CaseNames == {<<"B", "e">>, <<"b", "E">>, <<"B", "E">>}
\* Values of the bandwidth statements drawn (kb), one of them no integer.
BwValues == {<<"1">>, <<"2">>, <<"k">>}
\* Values of the shape average statements drawn, one of them no integer:
\* against the bandwidths 1 and 2 they give the deltas 0, -999, 1000 and 1.
ShValues == {<<"1", "0", "0", "0">>, <<"1", "9", "9", "9">>, <<"m">>}

\* The output of 'show run | include hostname' for a device named name.
hostname_line(name) == str_hostname \o <<" ">> \o name

\* The output of 'show run | include ^ bandwidth': one line per statement.
RECURSIVE bandwidth_lines(_)
bandwidth_lines(vals) ==
    IF vals = <<>> THEN <<>>
    ELSE <<" ">> \o str_bandwidth \o <<" ">> \o vals[1]
         \o (IF Len(vals) = 1 THEN <<>> ELSE <<"\n">> \o bandwidth_lines(Tail(vals)))

\* The output of 'show run | include shape average': one line per statement.
RECURSIVE shape_lines(_)
shape_lines(vals) ==
    IF vals = <<>> THEN <<>>
    ELSE <<" ">> \o str_shape \o <<" ">> \o str_average \o <<" ">> \o vals[1]
         \o (IF Len(vals) = 1 THEN <<>> ELSE <<"\n">> \o shape_lines(Tail(vals)))

\* The outputs drawn in each scope.  "engine": every name, every list of
\* statements within the bounds.  "fleet": a bypassed and a plain name, each
\* statement absent or present once.  "twice": a bypassed and a plain name,
\* bandwidth outputs of one value and of two, shape outputs of no, one and two
\* statements, so that the same input can be evaluated twice.  "pool": more
\* devices than workers; the one that is reached has a bypassed name.
HostnameOutputs(sc) ==
    CASE sc = "engine" ->
           {hostname_line(n) : n \in SeqsUpTo(NameChars, MaxNameLen) \cup CaseNames}
      [] sc = "fleet" -> {hostname_line(<<"b", "e">>), hostname_line(<<"B">>)}
      [] sc = "twice" -> {hostname_line(<<"b", "e">>), hostname_line(<<"B">>)}
      [] sc = "pool" -> {hostname_line(<<"b", "e">>)}

BandwidthOutputs(sc) ==
    CASE sc = "engine" -> {bandwidth_lines(v) : v \in SeqsUpTo(BwValues, MaxBwStmts)}
      [] sc = "fleet" -> {<<>>, bandwidth_lines(<<<<"1">>>>)}
      [] sc = "twice" -> {bandwidth_lines(v) : v \in SeqsUpTo({<<"1">>, <<"2">>}, MaxBwStmts)}
      [] sc = "pool" -> {<<>>}

ShapeOutputs(sc) ==
    CASE sc = "engine" -> {shape_lines(v) : v \in SeqsUpTo(ShValues, MaxShStmts)}
      [] sc = "fleet" -> {<<>>, shape_lines(<<<<"1", "0", "0", "0">>>>)}
      [] sc = "twice" ->
           {<<>>, shape_lines(<<<<"1", "0", "0", "0">>>>),
            shape_lines(<<<<"1", "0", "0", "0">>, <<"1", "0", "0", "0">>>>)}
      [] sc = "pool" -> {<<>>}

\* Mutant: the tuple misses the authentication exception.
netmiko_exceptions_short == {"NetMikoTimeoutException", "NetmikoBaseException"}

\* netmiko_exceptions = (NetMikoTimeoutException, NetMikoAuthenticationException,
\*                       NetmikoBaseException)
netmiko_exceptions ==
    {"NetMikoTimeoutException", "NetMikoAuthenticationException", "NetmikoBaseException"}

\* What each call on the session can do: return ("ok") or raise.
ConnectResults ==
    {"ok", "NetMikoTimeoutException", "NetMikoAuthenticationException",
     "NetmikoBaseException"}
\* What ConnectHandler can do for the address at position d.  In the "pool"
\* scope only the first address is reachable; for the others the call fails
\* with an exception that is none of netmiko's.
ConnectResultsOf(sc, d) ==
    IF sc = "pool"
    THEN (IF d = 1 THEN {"ok"} ELSE {"OSError"})
    ELSE ConnectResults

EnableResults == {"ok", "ValueError"}
CommandResults == {"ok", "ReadTimeout"}
DisconnectResults == {"ok", "NetmikoBaseException", "OSError"}

Call(name, result) == [call |-> name, result |-> result]

locals_new ==
    [hostname |-> PyMissing, hostname_output |-> PyMissing,
     bandwidth_output |-> PyMissing, shape_output |-> PyMissing]

\* ------------------------------------------------------------------- Init

InitWith(sc, devs, mans) ==
    /\ scope = sc
    /\ devices \in devs
    /\ man \in mans
    /\ main_pc = "start"
    /\ nxt = 1
    /\ results = <<>>
    /\ csvfile = [header |-> 0, rows |-> <<>>]
    /\ pc = [d \in Slots |-> "new"]
    /\ record = [d \in Slots |-> record_new(0)]
    /\ local = [d \in Slots |-> locals_new]
    /\ calls = [d \in Slots |-> <<>>]
    /\ escaped = [d \in Slots |-> ""]

\* The address lists of a run: 1, 2, ... up to NumDevices distinct addresses.
AddressLists == {[i \in 1..n |-> i] : n \in 1..NumDevices}

Init == InitWith("fleet", AddressLists, BOOLEAN)

InitEngine == InitWith("engine", {<<1>>}, {FALSE})

\* The same address listed twice: two evaluations for one device.
InitTwice == InitWith("twice", {<<1, 1>>}, {FALSE})

\* A list of one address, and a list of one address more than the pool has
\* workers.
PoolLists == {[i \in 1..n |-> i] : n \in {1, PoolDevices}}

InitPool == InitWith("pool", PoolLists, {FALSE})

InList_dev(d) == d \in 1..Len(devices)

\* ------------------------------------------------- check_shape_bandwidth

\* A worker process of the pool takes the oldest pending call when it is free;
\* the call starts with record = {} and record['ip'] = device.
Running == {d \in 1..Len(devices) : pc[d] \in {"connect", "try", "disconnect", "stamp"}}

\* Mutant: a call is started whether or not a worker process is idle.
slot_always_free(running) == TRUE

\* ProcessPoolExecutor(max_workers=12): a pending call is taken only by an idle
\* worker process, and there are max_workers of them.
slot_free(running) == Cardinality(running) < max_workers

worker_start(d) ==
    /\ InList_dev(d)
    /\ pc[d] = "pending"
    /\ \A c \in 1..(d - 1) : pc[c] # "pending"
    /\ slot_free(Running)
    /\ pc' = [pc EXCEPT ![d] = "connect"]
    /\ record' = [record EXCEPT ![d] = record_new(devices[d])]
    /\ UNCHANGED <<scope, devices, man, main_pc, nxt, results, csvfile, local, calls,
                   escaped>>

\* net_connect = ConnectHandler(**host), and the outer except when it raises.
connect(d) ==
    /\ InList_dev(d)
    /\ pc[d] = "connect"
    /\ \E r \in ConnectResultsOf(scope, d) :
         /\ calls' = [calls EXCEPT ![d] = Append(@, Call("ConnectHandler", r))]
         /\ IF r = "ok"
            THEN /\ pc' = [pc EXCEPT ![d] = "try"]
                 /\ UNCHANGED <<record, escaped>>
            ELSE IF r \in netmiko_exceptions
            THEN /\ pc' = [pc EXCEPT ![d] = "stamp"]
                 /\ record' = [record EXCEPT
                                 ![d] = netmiko_except_record(@, devices[d], r)]
                 /\ UNCHANGED escaped
            ELSE /\ pc' = [pc EXCEPT ![d] = "raised"]
                 /\ escaped' = [escaped EXCEPT ![d] = r]
                 /\ UNCHANGED record
    /\ UNCHANGED <<scope, devices, man, main_pc, nxt, results, csvfile, local>>

\* How the inner try statement ends for a block that ended with out, the local
\* hostname being hostname (PyMissing: not assigned yet): the except clause
\* formats hostname, which raises UnboundLocalError when it is not assigned.
inner_try_end(device, hostname, out) ==
    IF ~out.raised THEN [escaped |-> "", record |-> out.record]
    ELSE IF hostname.kind = "missing"
    THEN [escaped |-> "UnboundLocalError", record |-> out.record]
    ELSE [escaped |-> "", record |-> except_record(out.record, device, hostname.str, out.e)]

\* The state after the inner try statement.
after_try(d, lcl, cls, out) ==
    LET end == inner_try_end(devices[d], lcl.hostname, out)
    IN  /\ local' = [local EXCEPT ![d] = lcl]
        /\ calls' = [calls EXCEPT ![d] = @ \o cls]
        /\ record' = [record EXCEPT ![d] = end.record]
        /\ escaped' = [escaped EXCEPT ![d] = end.escaped]
        /\ pc' = [pc EXCEPT ![d] = IF end.escaped = "" THEN "disconnect" ELSE "raised"]

\* The inner try statement: enable, the hostname command, the bypass, the two
\* commands, the classification, and the except clause.
try_block(d) ==
    /\ InList_dev(d)
    /\ pc[d] = "try"
    /\ LET rec0 == record[d]
           c_en(r) == Call("enable", r)
           c_ho(r) == Call("send_command hostname", r)
           c_bw(r) == Call("send_command bandwidth", r)
           c_sh(r) == Call("send_command shape", r)
       IN \E en \in EnableResults :
          IF en # "ok"
          THEN after_try(d, locals_new, <<c_en(en)>>, Raised(en, rec0))
          ELSE \E ho \in CommandResults :
          IF ho # "ok"
          THEN after_try(d, locals_new, <<c_en("ok"), c_ho(ho)>>, Raised(ho, rec0))
          ELSE \E hostname_output \in HostnameOutputs(scope) :
          LET hostname == hostname_of(hostname_output)
              lcl1 == [locals_new EXCEPT !.hostname_output = PyStr(hostname_output),
                                         !.hostname = PyStr(hostname)]
              rec1 == [rec0 EXCEPT !.hostname = PyStr(hostname)]
          IN
          IF is_best_effort(hostname)
          THEN after_try(d, lcl1, <<c_en("ok"), c_ho("ok")>>,
                         Fell(bypass_record(rec1, devices[d], hostname)))
          ELSE \E bo \in CommandResults :
          IF bo # "ok"
          THEN after_try(d, lcl1, <<c_en("ok"), c_ho("ok"), c_bw(bo)>>, Raised(bo, rec1))
          ELSE \E bandwidth_output \in BandwidthOutputs(scope) :
          LET lcl2 == [lcl1 EXCEPT !.bandwidth_output = PyStr(bandwidth_output)]
          IN
          \E so \in CommandResults :
          IF so # "ok"
          THEN after_try(d, lcl2, <<c_en("ok"), c_ho("ok"), c_bw("ok"), c_sh(so)>>,
                         Raised(so, rec1))
          ELSE \E shape_output \in ShapeOutputs(scope) :
               \E set_lst \in bandwidth_set_lsts(bandwidth_output) :
          after_try(d, [lcl2 EXCEPT !.shape_output = PyStr(shape_output)],
                    <<c_en("ok"), c_ho("ok"), c_bw("ok"), c_sh("ok")>>,
                    classify(rec1, devices[d], hostname, bandwidth_output, shape_output,
                             set_lst))
    /\ UNCHANGED <<scope, devices, man, main_pc, nxt, results, csvfile>>

\* net_connect.disconnect(), inside the outer try: a netmiko exception is
\* handled by the outer except, anything else leaves the function.
disconnect(d) ==
    /\ InList_dev(d)
    /\ pc[d] = "disconnect"
    /\ \E r \in DisconnectResults :
         /\ calls' = [calls EXCEPT ![d] = Append(@, Call("disconnect", r))]
         /\ IF r = "ok"
            THEN /\ pc' = [pc EXCEPT ![d] = "stamp"]
                 /\ UNCHANGED <<record, escaped>>
            ELSE IF r \in netmiko_exceptions
            THEN /\ pc' = [pc EXCEPT ![d] = "stamp"]
                 /\ record' = [record EXCEPT
                                 ![d] = netmiko_except_record(@, devices[d], r)]
                 /\ UNCHANGED escaped
            ELSE /\ pc' = [pc EXCEPT ![d] = "raised"]
                 /\ escaped' = [escaped EXCEPT ![d] = r]
                 /\ UNCHANGED record
    /\ UNCHANGED <<scope, devices, man, main_pc, nxt, results, csvfile, local>>

\* record['timestamp'] = datetime.datetime.now(tz=EST); return record
stamp_return(d) ==
    /\ InList_dev(d)
    /\ pc[d] = "stamp"
    /\ record' = [record EXCEPT ![d].timestamp = PyTime]
    /\ pc' = [pc EXCEPT ![d] = "returned"]
    /\ UNCHANGED <<scope, devices, man, main_pc, nxt, results, csvfile, local, calls,
                   escaped>>

\* ------------------------------------------------------------------- main

\* csvwriter.writeheader(); the executor is created and executor.map submits
\* one call per address.
main_start ==
    /\ main_pc = "start"
    /\ csvfile' = [csvfile EXCEPT !.header = @ + 1]
    /\ pc' = [d \in Slots |-> IF InList_dev(d) THEN "pending" ELSE pc[d]]
    /\ main_pc' = "map"
    /\ UNCHANGED <<scope, devices, man, nxt, results, record, local, calls, escaped>>

\* Mutant: the row is put in front of the rows written so far.
writerow_front(file, row) == [file EXCEPT !.rows = <<row>> \o @]

\* csvwriter.writerow(result)
writerow(file, row) == [file EXCEPT !.rows = Append(@, row)]

\* csvwriter.writerows(results)
writerows(file, rows) == [file EXCEPT !.rows = @ \o rows]

\* The iterator of executor.map hands over the results in input order: the
\* next one when its call has ended.  A call that raised raises again in main,
\* which leaves the loop; the calls still pending are cancelled.
main_next_result ==
    /\ main_pc = "map"
    /\ nxt <= Len(devices)
    /\ pc[nxt] \in {"returned", "raised"}
    /\ IF pc[nxt] = "returned"
       THEN /\ nxt' = nxt + 1
            /\ IF man
               THEN results' = Append(results, record[nxt]) /\ UNCHANGED csvfile
               ELSE csvfile' = writerow(csvfile, record[nxt]) /\ UNCHANGED results
            /\ UNCHANGED <<main_pc, pc>>
       ELSE /\ main_pc' = "raised"
            /\ pc' = [d \in Slots |-> IF pc[d] = "pending" THEN "cancelled" ELSE pc[d]]
            /\ UNCHANGED <<nxt, results, csvfile>>
    /\ UNCHANGED <<scope, devices, man, record, local, calls, escaped>>

\* Every result was taken: under --man the rows are written now.
main_end ==
    /\ main_pc = "map"
    /\ nxt > Len(devices)
    /\ csvfile' = IF man THEN writerows(csvfile, results) ELSE csvfile
    /\ main_pc' = "done"
    /\ UNCHANGED <<scope, devices, man, nxt, results, pc, record, local, calls, escaped>>

Next ==
    \/ main_start
    \/ \E d \in Slots : worker_start(d)
    \/ \E d \in Slots : connect(d)
    \/ \E d \in Slots : try_block(d)
    \/ \E d \in Slots : disconnect(d)
    \/ \E d \in Slots : stamp_return(d)
    \/ main_next_result
    \/ main_end

Spec == Init /\ [][Next]_vars

SpecEngine == InitEngine /\ [][Next]_vars

SpecTwice == InitTwice /\ [][Next]_vars

SpecPool == InitPool /\ [][Next]_vars

\* ------------------------------------------------------------- properties

\* The opaque marker of the report.
Marker == PyStr(str_see_comment)

HasPart(comment, part) == \E i \in 1..Len(comment) : comment[i] = part

Positions == Slots

\* The call name made on d's session raised.
CallRaised(d, name) ==
    \E i \in 1..Len(calls[d]) : calls[d][i].call = name /\ calls[d][i].result # "ok"

\* The call name was made on d's session.
CallMade(d, name) == \E i \in 1..Len(calls[d]) : calls[d][i].call = name

\* Every call made on d's session so far returned.
AllCallsOk(d) == \A i \in 1..Len(calls[d]) : calls[d][i].result = "ok"

\* The inner try statement of d has ended and nothing after it has failed: d
\* is about to close its session, or has closed it cleanly.
AtDecision(d) ==
    /\ InList_dev(d)
    /\ \/ pc[d] = "disconnect"
       \/ /\ pc[d] \in {"stamp", "returned"}
          /\ calls[d] # <<>>
          /\ calls[d][Len(calls[d])] = Call("disconnect", "ok")

\* main has left the loop over executor.map, normally or by an exception.
MainEnded == main_pc \in {"done", "raised"}

\* How many data rows of the report carry the address a.
RowsOf(a) == Cardinality({i \in 1..Len(csvfile.rows) : csvfile.rows[i].ip = a})

\* C1 (as claimed): when main has ended, whatever the devices did (connection
\* failure, command failure, parse fault, close failure, a classification),
\* the report holds exactly one data row for every input address.
C1_OneRowPerAddress ==
    MainEnded =>
        /\ Len(csvfile.rows) = Len(devices)
        /\ \A i \in 1..Len(devices) : RowsOf(devices[i]) = 1

\* C2: a device whose ConnectHandler raised (timeout, authentication, base
\* netmiko exception) gets the record Fail / marker / marker with no hostname
\* and a comment naming the address and the error, no command is issued on it,
\* nothing leaves its worker and the report never holds two rows for it; ...
C2_ConnectFailRecord ==
    \A d \in Positions :
        (InList_dev(d) /\ CallRaised(d, "ConnectHandler")) =>
            /\ pc[d] \in {"stamp", "returned"}
            /\ escaped[d] = ""
            /\ calls[d] = <<Call("ConnectHandler", calls[d][1].result)>>
            /\ record[d].ip = devices[d]
            /\ record[d].results = "Fail"
            /\ record[d].bandwidth = Marker
            /\ record[d].shape_avg = Marker
            /\ record[d].hostname = PyMissing
            /\ HasPart(record[d].comments, Dev(devices[d]))
            /\ HasPart(record[d].comments, Exc(calls[d][1].result))
            /\ RowsOf(devices[d]) <= 1
            /\ (main_pc = "raised" => nxt # d)
            /\ (~man /\ nxt > d => csvfile.rows[d] = record[d])

\* ... and the step in which the connection fails changes nothing of any other
\* device, of the report or of main.
C2_ConnectFailStep ==
    \A d \in Positions :
        (pc[d] = "connect" /\ pc'[d] # "connect" /\ pc'[d] # "try") =>
            /\ \A c \in Positions \ {d} :
                 /\ pc'[c] = pc[c]
                 /\ record'[c] = record[c]
                 /\ calls'[c] = calls[c]
                 /\ escaped'[c] = escaped[c]
            /\ csvfile' = csvfile
            /\ results' = results
            /\ main_pc' = main_pc

C2_ConnectFailureIsolated == []C2_ConnectFailRecord /\ [][C2_ConnectFailStep]_vars

\* C2 witness: a device whose connection failed has its Fail row in the report
\* next to the row of a device that was classified.
C2_Witness ==
    \E d, c \in Positions :
        /\ d # c /\ InList_dev(d) /\ InList_dev(c)
        /\ CallRaised(d, "ConnectHandler")
        /\ AllCallsOk(c)
        /\ main_pc = "done"
        /\ RowsOf(devices[d]) = 1 /\ RowsOf(devices[c]) = 1
        /\ record[d].results = "Fail"
        /\ record[c].results = "Skipped"

\* C3 (as claimed): a fault raised after the connection, by enable or by one
\* of the three commands, never leaves the worker: the device ends the inner
\* try with the record Fail / marker / marker and a comment holding the error
\* (and the hostname when it is known), and main is not stopped by it.
C3_FaultAfterConnectCaught ==
    \A d \in Positions :
        (/\ InList_dev(d)
         /\ \/ CallRaised(d, "enable")
            \/ CallRaised(d, "send_command hostname")
            \/ CallRaised(d, "send_command bandwidth")
            \/ CallRaised(d, "send_command shape")) =>
            /\ escaped[d] = ""
            /\ pc[d] # "raised"
            /\ pc[d] = "disconnect" =>
                 /\ record[d].results = "Fail"
                 /\ record[d].bandwidth = Marker
                 /\ record[d].shape_avg = Marker
                 /\ HasPart(record[d].comments, Exc(calls[d][Len(calls[d])].result))
                 /\ (local[d].hostname.kind = "str" =>
                       HasPart(record[d].comments, Txt(local[d].hostname.str)))

\* d's hostname command returned a name without "be": the bypass is not taken.
NonBypassed(d) ==
    /\ local[d].hostname.kind = "str"
    /\ ~Contains(str_be, local[d].hostname.str)

\* d is past the inner try, not bypassed, and both of its commands returned.
Classified(d) ==
    /\ AtDecision(d)
    /\ AllCallsOk(d)
    /\ NonBypassed(d)
    /\ local[d].bandwidth_output.kind = "str"
    /\ local[d].shape_output.kind = "str"

\* n statements, all of the value v.
RECURSIVE Repeat(_, _)
Repeat(v, n) == IF n = 0 THEN <<>> ELSE <<v>> \o Repeat(v, n - 1)

\* The integers the numeric sample values stand for.
ValueOf(tok) ==
    CASE tok = <<"1">> -> 1
      [] tok = <<"2">> -> 2
      [] tok = <<"1", "0", "0", "0">> -> 1000
      [] tok = <<"1", "9", "9", "9">> -> 1999

IsNumber(tok) == tok \in {<<"1">>, <<"2">>, <<"1", "0", "0", "0">>, <<"1", "9", "9", "9">>}

\* C4: a device whose extracted hostname contains "be" is Skipped with both
\* fields the marker, and neither the bandwidth nor the shape command is ever
\* issued on it, so no statement of its configuration can change that.
C4_BypassRule ==
    \A d \in Positions :
        (/\ AtDecision(d)
         /\ local[d].hostname.kind = "str"
         /\ Contains(str_be, local[d].hostname.str)) =>
            /\ record[d].results = "Skipped"
            /\ record[d].bandwidth = Marker
            /\ record[d].shape_avg = Marker
            /\ record[d].hostname = local[d].hostname
            /\ ~CallMade(d, "send_command bandwidth")
            /\ ~CallMade(d, "send_command shape")

\* C4 witness: a returned Skipped record of a name that holds "be" inside it.
C4_Witness ==
    \E d \in Positions :
        /\ pc[d] = "returned"
        /\ AtDecision(d)
        /\ local[d].hostname = PyStr(<<"e", "b", "e">>)
        /\ record[d].results = "Skipped"

\* C5 (as claimed): the presence matrix of a non-bypassed device.  Both absent:
\* Fail, null, null, comment says both are missing.  Bandwidth only: Fail,
\* bandwidth "see comment", shape null, comment holds the bandwidth text.
\* Shape only: Fail, null, "see comment", comment holds the shape text.  Both
\* present: none of the missing-statement records.
C5_PresenceMatrix ==
    \A d \in Positions :
        Classified(d) =>
            LET bw == local[d].bandwidth_output.str
                sh == local[d].shape_output.str
                r == record[d]
            IN  /\ (bw = <<>> /\ sh = <<>>) =>
                     /\ r.results = "Fail"
                     /\ r.bandwidth = PyNone /\ r.shape_avg = PyNone
                     /\ HasPart(r.comments,
                                Lit(" missing bandwidth and shape average statements!"))
                /\ (bw # <<>> /\ sh = <<>>) =>
                     /\ r.results = "Fail"
                     /\ r.bandwidth = Marker /\ r.shape_avg = PyNone
                     /\ HasPart(r.comments, Txt(bw))
                /\ (bw = <<>> /\ sh # <<>>) =>
                     /\ r.results = "Fail"
                     /\ r.bandwidth = PyNone /\ r.shape_avg = Marker
                     /\ HasPart(r.comments, Txt(sh))
                /\ (bw # <<>> /\ sh # <<>>) =>
                     \A i \in 1..Len(r.comments) :
                        r.comments[i].lit \notin
                          {" missing bandwidth and shape average statements!",
                           " missing shape average statement! Bandwidth output: ",
                           " missing shape average statement! Shape average output: "}

\* The bandwidth output of d holds statements of at least two distinct values.
ConflictingBandwidth(d, vals) ==
    /\ local[d].bandwidth_output.str = bandwidth_lines(vals)
    /\ Cardinality(SetOfList(vals)) >= 2

\* The record of the ambiguous-bandwidth branch for the values vals.
AmbiguousBandwidthRecord(d, vals) ==
    /\ record[d].results = "Fail"
    /\ record[d].bandwidth = Marker
    /\ record[d].shape_avg = Marker
    /\ HasPart(record[d].comments, Lit(" has more than 1 bandwidth: "))
    /\ \E i \in 1..Len(record[d].comments) :
         /\ record[d].comments[i].k = "list"
         /\ SetOfList(record[d].comments[i].lst) = SetOfList(vals)
         /\ Len(record[d].comments[i].lst) = Cardinality(SetOfList(vals))
    /\ HasPart(record[d].comments, Txt(local[d].shape_output.str))

\* C6 (as claimed): bandwidth statements of distinct values give the
\* ambiguous-bandwidth Fail record for every shape text.
C6_AmbiguousBandwidthAnyShape ==
    \A d \in Positions :
        Classified(d) =>
            \A vals \in SeqsUpTo(BwValues, MaxBwStmts) :
                ConflictingBandwidth(d, vals) => AmbiguousBandwidthRecord(d, vals)

\* C6 (amended): bandwidth statements of distinct values give the
\* ambiguous-bandwidth Fail record (marker, marker, comment listing the
\* conflicting tokens and holding the raw shape text) for every shape text that
\* is not empty.
C6_AmbiguousBandwidth ==
    \A d \in Positions :
        (Classified(d) /\ local[d].shape_output.str # <<>>) =>
            \A vals \in SeqsUpTo(BwValues, MaxBwStmts) :
                ConflictingBandwidth(d, vals) => AmbiguousBandwidthRecord(d, vals)

\* C6 witness: a returned record of the bandwidth values 1 and 2 with one shape
\* statement.
C6_Witness ==
    \E d \in Positions :
        /\ pc[d] = "returned"
        /\ Classified(d)
        /\ ConflictingBandwidth(d, <<<<"1">>, <<"2">>>>)
        /\ local[d].shape_output.str = shape_lines(<<<<"1", "0", "0", "0">>>>)
        /\ AmbiguousBandwidthRecord(d, <<<<"1">>, <<"2">>>>)

\* C7: with both texts present, two or more bandwidth statements of one value v
\* never give the ambiguous-bandwidth record; the shape check runs (two or more
\* shape statements give its Fail record, with bandwidth = v) and one shape
\* statement s leads to the comparison of v with s: the numeric record of v and
\* s, or the parse fault when one of them is no integer.
C7_DuplicateBandwidthCollapses ==
    \A d \in Positions :
        (Classified(d) /\ local[d].shape_output.str # <<>>) =>
            \A v \in BwValues : \A n \in 2..MaxBwStmts :
                local[d].bandwidth_output.str = bandwidth_lines(Repeat(v, n)) =>
                    /\ ~HasPart(record[d].comments, Lit(" has more than 1 bandwidth: "))
                    /\ \A sv \in SeqsUpTo(ShValues, MaxShStmts) :
                         local[d].shape_output.str = shape_lines(sv) =>
                            IF Len(sv) >= 2
                            THEN /\ record[d].bandwidth = PyStr(v)
                                 /\ HasPart(record[d].comments,
                                            Lit(" has more than 1 shape average statement: "))
                            ELSE IF IsNumber(v) /\ IsNumber(sv[1])
                            THEN /\ record[d].results = "Pass"
                                 /\ record[d].bandwidth = PyInt(ValueOf(v) * 1000)
                                 /\ record[d].shape_avg = PyInt(ValueOf(sv[1]))
                            ELSE /\ record[d].results = "Fail"
                                 /\ HasPart(record[d].comments, Exc("ValueError"))

\* C7 witness: "bandwidth 2" twice with "shape average 1999" was compared.
C7_Witness ==
    \E d \in Positions :
        /\ pc[d] = "returned"
        /\ Classified(d)
        /\ local[d].bandwidth_output.str = bandwidth_lines(<<<<"2">>, <<"2">>>>)
        /\ local[d].shape_output.str = shape_lines(<<<<"1", "9", "9", "9">>>>)
        /\ record[d].bandwidth = PyInt(2000)
        /\ record[d].shape_avg = PyInt(1999)

\* d's outputs are statements of the single integer b and one shape statement
\* of the integer s: the pair reaches the numeric comparison.
Compared(d, b, s) ==
    /\ Classified(d)
    /\ IsNumber(b) /\ IsNumber(s)
    /\ \E n \in 1..MaxBwStmts : local[d].bandwidth_output.str = bandwidth_lines(Repeat(b, n))
    /\ local[d].shape_output.str = shape_lines(<<s>>)

\* C8: for integers b and s reaching the comparison, delta = b*1000 - s decides
\* the comment and nothing else: 0 gives "Exact Match", 1 gives "Delta = 1",
\* any other delta the mismatch comment, and the status is Pass in all three.
C8_DeltaDecides ==
    \A d \in Positions : \A b \in BwValues : \A s \in ShValues :
        Compared(d, b, s) =>
            LET delta == ValueOf(b) * 1000 - ValueOf(s)
                exact == HasPart(record[d].comments, Lit("(Exact Match) Bandwidth = "))
                one == HasPart(record[d].comments, Lit(" (Delta = 1) Bandwidth = "))
                mismatch == HasPart(record[d].comments, Lit(" mismatch!"))
            IN  /\ record[d].results = "Pass"
                /\ exact <=> delta = 0
                /\ one <=> delta = 1
                /\ mismatch <=> delta \notin {0, 1}

\* C8 witness: a negative delta (1*1000 - 1999) returned as Pass with the
\* mismatch comment.
C8_Witness ==
    \E d \in Positions :
        /\ pc[d] = "returned"
        /\ Compared(d, <<"1">>, <<"1", "9", "9", "9">>)
        /\ record[d].results = "Pass"
        /\ HasPart(record[d].comments, Lit(" mismatch!"))

\* C9 (as claimed): two evaluations for the same address that were given the
\* same hostname text, bandwidth text and shape text hold records equal in
\* every field but the timestamp.
C9_Deterministic ==
    \A d1, d2 \in Positions :
        (/\ Classified(d1) /\ Classified(d2)
         /\ devices[d1] = devices[d2]
         /\ local[d1] = local[d2]) =>
            /\ record[d1].hostname = record[d2].hostname
            /\ record[d1].bandwidth = record[d2].bandwidth
            /\ record[d1].shape_avg = record[d2].shape_avg
            /\ record[d1].results = record[d2].results
            /\ record[d1].comments = record[d2].comments

\* The tri-state of a report field: absent (None, or no key), numeric, the
\* opaque marker; any other str is "other".
KindOf(v) ==
    CASE v.kind \in {"None", "missing"} -> "absent"
      [] v.kind = "int" -> "numeric"
      [] v = Marker -> "marker"
      [] OTHER -> "other"

\* The numeric comparison of a record: its delta when both fields are numeric.
DeltaOf(r) ==
    IF r.bandwidth.kind = "int" /\ r.shape_avg.kind = "int"
    THEN r.bandwidth.num - r.shape_avg.num
    ELSE 0

\* Two returned records that agree on both kinds and on the comparison.
SameKinds(d1, d2) ==
    /\ pc[d1] = "returned" /\ pc[d2] = "returned"
    /\ KindOf(record[d1].bandwidth) = KindOf(record[d2].bandwidth)
    /\ KindOf(record[d1].shape_avg) = KindOf(record[d2].shape_avg)
    /\ DeltaOf(record[d1]) = DeltaOf(record[d2])

\* C10 (as claimed): two records with the same bandwidth kind, the same shape
\* kind and the same comparison have the same status.
C10_StatusDetermined ==
    \A d1, d2 \in Positions :
        SameKinds(d1, d2) => record[d1].results = record[d2].results

\* C10 (amended): two records with the same kinds and the same comparison have
\* the same status, except that the pair (marker, marker) is shared by Skipped
\* and Fail; a Skipped record always has that pair and a hostname holding "be".
C10_StatusDeterminedButSkipped ==
    /\ \A d1, d2 \in Positions :
         (SameKinds(d1, d2) /\ record[d1].results # record[d2].results) =>
            /\ KindOf(record[d1].bandwidth) = "marker"
            /\ KindOf(record[d1].shape_avg) = "marker"
            /\ {record[d1].results, record[d2].results} = {"Skipped", "Fail"}
    /\ \A d \in Positions :
         (pc[d] = "returned" /\ record[d].results = "Skipped") =>
            /\ KindOf(record[d].bandwidth) = "marker"
            /\ KindOf(record[d].shape_avg) = "marker"
            /\ record[d].hostname.kind = "str"
            /\ Contains(str_be, record[d].hostname.str)

\* C10 witness: a Skipped and a Fail record, both (marker, marker), and two
\* records that agree on (absent, absent) and on Fail.
C10_Witness ==
    \E d1, d2 \in Positions :
        /\ d1 # d2
        /\ SameKinds(d1, d2)
        /\ KindOf(record[d1].bandwidth) = "marker"
        /\ record[d1].results = "Skipped"
        /\ record[d2].results = "Fail"

\* d's ConnectHandler returned: its session was opened.
SessionOpened(d) ==
    /\ InList_dev(d)
    /\ calls[d] # <<>>
    /\ calls[d][1] = Call("ConnectHandler", "ok")

\* d's call of check_shape_bandwidth has ended: it returned or it raised.
WorkerEnded(d) == InList_dev(d) /\ pc[d] \in {"returned", "raised"}

\* C11 (as claimed): on every path (the bypass, every classification, every
\* fault raised after the connection) a worker that opened its session has
\* called disconnect on it by the time it ends.
C11_SessionAlwaysReleased ==
    \A d \in Positions :
        (SessionOpened(d) /\ WorkerEnded(d)) => CallMade(d, "disconnect")

\* The four report fields a decision branch sets.
Decided(r) == <<r.results, r.bandwidth, r.shape_avg, r.comments>>

\* C12 (as claimed): the steps after the decision (closing the session, the
\* timestamp, the return) leave status, bandwidth, shape_avg and comment as the
\* branch set them, and a failing close does not keep the record from being
\* returned.
C12_AfterDecisionStep ==
    \A d \in Positions :
        /\ (pc[d] = "disconnect" /\ pc'[d] # "disconnect") =>
              /\ pc'[d] = "stamp"
              /\ escaped'[d] = ""
              /\ Decided(record'[d]) = Decided(record[d])
        /\ (pc[d] = "stamp" /\ pc'[d] # "stamp") =>
              /\ pc'[d] = "returned"
              /\ Decided(record'[d]) = Decided(record[d])

C12_DecidedRecordKept == [][C12_AfterDecisionStep]_vars

\* The shape output of every list of shape values drawn.
ShapeTexts == [sv \in SeqsUpTo(ShValues, MaxShStmts) |-> shape_lines(sv)]

\* The bandwidth outputs that state the one value b, once or more.
SingleValueTexts ==
    [b \in BwValues |-> {bandwidth_lines(Repeat(b, n)) : n \in 1..MaxBwStmts}]

\* d reached the integer parse: one bandwidth value b (stated once or more)
\* and one shape statement of the value s.
ReachedParse(d, b, s) ==
    /\ Classified(d)
    /\ local[d].shape_output.str = ShapeTexts[<<s>>]
    /\ local[d].bandwidth_output.str \in SingleValueTexts[b]

\* The comment of r reports an exception.
ReportsException(r) ==
    \E i \in 1..Len(r.comments) : r.comments[i].k = "exception"

\* C13: when the one bandwidth value or the one shape value left is no integer,
\* the record is Fail with both fields the marker, never Pass and never
\* numeric, its comment holds the hostname and the ValueError, and the device
\* has one row when main is done; every other classification (missing,
\* ambiguous, duplicate, comparison) has a comment that reports no exception.
C13_ParseFaultIsFail ==
    \A d \in Positions :
        Classified(d) =>
            LET faulty == \E s \in ShValues : \E b \in BwValues :
                              ReachedParse(d, b, s) /\ ~(IsNumber(b) /\ IsNumber(s))
            IN  IF faulty
                THEN /\ record[d].results = "Fail"
                     /\ record[d].bandwidth = Marker
                     /\ record[d].shape_avg = Marker
                     /\ record[d].comments[1] = Lit("Exception on ")
                     /\ HasPart(record[d].comments, Dev(devices[d]))
                     /\ HasPart(record[d].comments, Txt(local[d].hostname.str))
                     /\ HasPart(record[d].comments, Exc("ValueError"))
                     /\ (main_pc = "done" => RowsOf(devices[d]) = 1)
                ELSE /\ ~ReportsException(record[d])
                     /\ record[d].comments[1] = Dev(devices[d])

\* C13 witness: "bandwidth k" with "shape average 1000" was returned as the
\* parse-fault record and written to the report.
C13_Witness ==
    \E d \in Positions :
        /\ pc[d] = "returned"
        /\ main_pc = "done"
        /\ ReachedParse(d, <<"k">>, <<"1", "0", "0", "0">>)
        /\ record[d].results = "Fail"
        /\ HasPart(record[d].comments, Exc("ValueError"))
        /\ RowsOf(devices[d]) = 1

\* C14: for a non-bypassed device whose bandwidth output holds one value b
\* (stated once or more), the shape values are counted as they stand: two or
\* more shape statements, equal values included, give Fail with bandwidth = b
\* as text, shape_avg = the marker and a comment listing the shape values in
\* order; one shape statement never gives that record.
C14_DuplicateShapeFails ==
    \A d \in Positions :
        Classified(d) =>
            \A sv \in DOMAIN ShapeTexts \ {<<>>} :
                local[d].shape_output.str = ShapeTexts[sv] =>
                    \A b \in BwValues :
                        local[d].bandwidth_output.str \in SingleValueTexts[b] =>
                            IF Len(sv) >= 2
                            THEN /\ record[d].results = "Fail"
                                 /\ record[d].bandwidth = PyStr(b)
                                 /\ record[d].shape_avg = Marker
                                 /\ HasPart(record[d].comments,
                                            Lit(" has more than 1 shape average statement: "))
                                 /\ HasPart(record[d].comments, Lst(sv))
                            ELSE ~HasPart(record[d].comments,
                                          Lit(" has more than 1 shape average statement: "))

\* C14 witness: "shape average 1000" twice with "bandwidth 2" was returned as
\* the duplicate-shape record.
C14_Witness ==
    \E d \in Positions :
        /\ pc[d] = "returned"
        /\ Classified(d)
        /\ local[d].bandwidth_output.str = bandwidth_lines(<<<<"2">>>>)
        /\ local[d].shape_output.str =
             shape_lines(<<<<"1", "0", "0", "0">>, <<"1", "0", "0", "0">>>>)
        /\ record[d].results = "Fail"
        /\ record[d].bandwidth = PyStr(<<"2">>)
        /\ record[d].shape_avg = Marker

\* C15 (as claimed): in all three delta branches the record holds the
\* bandwidth value as parsed from the bandwidth statement and the shape value as
\* parsed from the shape statement.
C15_RawValuesRecorded ==
    \A d \in Positions : \A b \in BwValues : \A s \in ShValues :
        Compared(d, b, s) =>
            /\ record[d].bandwidth = PyInt(ValueOf(b))
            /\ record[d].shape_avg = PyInt(ValueOf(s))

\* The names of the calls made on d's session, in order.
CallNames(d) == [i \in 1..Len(calls[d]) |-> calls[d][i].call]

\* The hostname command of d has returned.
HostnameKnown(d) == InList_dev(d) /\ local[d].hostname_output.kind = "str"

\* The name in the output "hostname <name>" of d's hostname command.
DeviceName(d) ==
    SubSeq(local[d].hostname_output.str, Len(str_hostname) + 2,
           Len(local[d].hostname_output.str))

\* C16: on the session of a device whose name contains "be" the calls are
\* enable, the hostname command, disconnect and nothing else: the bandwidth and
\* shape commands are never issued.  On the session of any other device the
\* bandwidth command follows the hostname command and the shape command
\* follows the bandwidth command as soon as that one has returned, and no
\* status is set before the commands were issued.
C16_SessionCallOrder ==
    \A d \in Positions :
        HostnameKnown(d) =>
            LET opened == <<"ConnectHandler", "enable", "send_command hostname">>
            IN  IF Contains(str_be, DeviceName(d))
                THEN /\ CallNames(d) \in {opened, opened \o <<"disconnect">>}
                     /\ pc[d] \in {"stamp", "returned", "raised"} =>
                          CallNames(d) = opened \o <<"disconnect">>
                     /\ record[d].results # ""
                ELSE /\ Len(calls[d]) >= 4
                     /\ SubSeq(CallNames(d), 1, 4) = opened \o <<"send_command bandwidth">>
                     /\ \A i \in 1..3 : calls[d][i].result = "ok"
                     /\ IF calls[d][4].result = "ok"
                        THEN /\ Len(calls[d]) >= 5
                             /\ calls[d][5].call = "send_command shape"
                        ELSE ~CallMade(d, "send_command shape")
                     /\ \A i \in 6..Len(calls[d]) : calls[d][i].call = "disconnect"
                     /\ record[d].results # ""

\* C16 witness: one run in which a bypassed device ended after exactly enable,
\* hostname, disconnect, and a plain device ended after both commands
\* returned, bandwidth first, and the session was closed after them.
C16_Witness ==
    \E d, c \in Positions :
        /\ pc[d] = "returned" /\ pc[c] = "returned"
        /\ HostnameKnown(d) /\ HostnameKnown(c)
        /\ DeviceName(d) = <<"b", "e">>
        /\ calls[d] = <<Call("ConnectHandler", "ok"), Call("enable", "ok"),
                        Call("send_command hostname", "ok"), Call("disconnect", "ok")>>
        /\ DeviceName(c) = <<"B">>
        /\ CallNames(c) = <<"ConnectHandler", "enable", "send_command hostname",
                            "send_command bandwidth", "send_command shape",
                            "disconnect">>
        /\ AllCallsOk(c)

\* The devices being processed: their call has started and has not ended, so
\* their session is being opened, is open or is being closed.
BeingProcessed == {d \in Positions : pc[d] \in {"connect", "try", "disconnect", "stamp"}}

\* C17: at every moment at most 12 devices are being processed, ...
C17_PoolBound == Cardinality(BeingProcessed) <= 12

\* ... and a device is started only in a step that begins with fewer than 12
\* devices being processed.
C17_StartStep ==
    \A d \in Positions :
        (pc[d] = "pending" /\ pc'[d] = "connect") => Cardinality(BeingProcessed) < 12

C17_AtMost12Concurrent == []C17_PoolBound /\ [][C17_StartStep]_vars

\* C17 witness: of 13 addresses, 12 are being processed at once, the first
\* with its session open, the 13th after it waited for another one to end.
C17_Witness ==
    /\ Len(devices) = 13
    /\ Cardinality(BeingProcessed) = 12
    /\ pc[1] = "disconnect"
    /\ SessionOpened(1)
    /\ pc[13] = "connect"

\* C18: the header is written once, before any call is submitted, and the data
\* rows are a prefix of the input list: the k-th row is the returned record of
\* the k-th address, whichever device ended first.
C18_HeaderThenRowsInInputOrder ==
    /\ csvfile.header = (IF main_pc = "start" THEN 0 ELSE 1)
    /\ (\E d \in Positions : pc[d] # "new") => csvfile.header = 1
    /\ Len(csvfile.rows) <= Len(devices)
    /\ \A k \in 1..Len(csvfile.rows) :
         /\ csvfile.rows[k].ip = devices[k]
         /\ csvfile.rows[k] = record[k]
         /\ pc[k] = "returned"
    /\ ~man => Len(csvfile.rows) = nxt - 1

\* C18 witness: the second device has returned while the first is still at
\* work; the header is written and no row is, the row of the second device
\* being held back.
C18_Witness ==
    /\ Len(devices) = 2
    /\ ~man
    /\ main_pc = "map"
    /\ pc[2] = "returned"
    /\ pc[1] \in {"connect", "try", "disconnect", "stamp"}
    /\ csvfile.header = 1
    /\ csvfile.rows = <<>>

\* The status r holds agrees with its two fields.
StatusAgrees(r) ==
    /\ r.results = "Pass" <=> (r.bandwidth.kind = "int" /\ r.shape_avg.kind = "int")
    /\ r.results = "Skipped" =>
         (r.hostname.kind = "str" /\ Contains(str_be, r.hostname.str))
    /\ (\/ r.bandwidth \in {PyNone, PyMissing, Marker}
        \/ r.shape_avg \in {PyNone, PyMissing, Marker}) => r.results # "Pass"

\* C19: in every record, at every step and in every row of the report, the
\* status is Pass exactly when bandwidth and shape_avg are both integers, and
\* then they are the values the comparison computed from integer statements;
\* Skipped only with a hostname that contains "be"; never Pass with a null or
\* marker field.
C19_StatusMatchesFields ==
    /\ \A d \in Positions :
         /\ StatusAgrees(record[d])
         /\ record[d].results = "Pass" =>
              \E b \in BwValues : \E s \in ShValues :
                 /\ IsNumber(b) /\ IsNumber(s)
                 /\ local[d].bandwidth_output.str \in SingleValueTexts[b]
                 /\ local[d].shape_output.str = ShapeTexts[<<s>>]
                 /\ record[d].bandwidth.num = ValueOf(b) * 1000
                 /\ record[d].shape_avg.num = ValueOf(s)
    /\ \A k \in 1..Len(csvfile.rows) : StatusAgrees(csvfile.rows[k])

\* C19 witness: a Pass row with two integers in the report.
C19_Witness ==
    \E k \in 1..Len(csvfile.rows) :
        /\ csvfile.rows[k].results = "Pass"
        /\ csvfile.rows[k].bandwidth = PyInt(2000)
        /\ csvfile.rows[k].shape_avg = PyInt(1999)

====
